---- MODULE Spec2Model ----
(***************************************************************************)
(* Model of gateway.py: a FastAPI reverse proxy that routes by longest     *)
(* path prefix, resolves "secret:NAME" upstreams from the environment,     *)
(* builds the target URL, filters headers and relays the response.         *)
(*                                                                         *)
(* Python str values that the code slices (paths, prefixes, upstream URLs, *)
(* secret names) are sequences of one-character strings.  Header names are *)
(* atomic strings; header values and the API key are sequences of chunks,  *)
(* so that f"{existing}, {client_host}" is a concatenation.                *)
(* An Optional[...] is a record [some, v]; None has some = FALSE.          *)
(***************************************************************************)
EXTENDS Integers, Sequences, FiniteSets, TLC

(* ------------------------------ bounds --------------------------------- *)
\* concurrent requests in flight in specification Spec
NumReq == 2
\* os.getenv calls counted per secret name
MaxFetch == 2
\* longest request path explored in specification SpecRoute
MaxPathLen == 4
\* most header lines per request / per upstream response in SpecHdr
MaxHdrs == 2

(* --------------------------- Python helpers ---------------------------- *)
None == [some |-> FALSE, v |-> <<>>]
Some(x) == [some |-> TRUE, v |-> x]
\* truth value of an Optional[str]: None and "" are falsy
Truthy(o) == o.some /\ o.v # <<>>

RECURSIVE rstrip(_)
\* s.rstrip("/")
rstrip(s) ==
    IF s # <<>> /\ s[Len(s)] = "/" THEN rstrip(SubSeq(s, 1, Len(s) - 1)) ELSE s

RECURSIVE lstrip(_)
\* s.lstrip("/")
lstrip(s) ==
    IF s # <<>> /\ s[1] = "/" THEN lstrip(Tail(s)) ELSE s

\* s.startswith(p)
startswith(s, p) ==
    Len(p) <= Len(s) /\ SubSeq(s, 1, Len(p)) = p

\* s[n:]
SliceFrom(s, n) ==
    SubSeq(s, n + 1, Len(s))

\* 1-based index of the first element of s in set cs, 0 when there is none
FindAny(s, cs) ==
    IF \E j \in 1..Len(s) : s[j] \in cs
    THEN CHOOSE j \in 1..Len(s) : s[j] \in cs /\ \A k \in 1..(j - 1) : s[k] \notin cs
    ELSE 0

(* An insertion-ordered dict is a sequence of <<key, value>> pairs with    *)
(* distinct keys.                                                          *)
DictKeys(d) ==
    {d[j][1] : j \in 1..Len(d)}

DictHas(d, k) ==
    \E j \in 1..Len(d) : d[j][1] = k

\* d[k] for a key that is present
DictGet(d, k) ==
    d[CHOOSE j \in 1..Len(d) : d[j][1] = k][2]

\* d.get(k)
DictGetOpt(d, k) ==
    IF DictHas(d, k) THEN Some(DictGet(d, k)) ELSE None

\* d[k] = v: an existing key keeps its position, a new key goes last
DictSet(d, k, v) ==
    IF DictHas(d, k)
    THEN [j \in 1..Len(d) |-> IF d[j][1] = k THEN <<k, v>> ELSE d[j]]
    ELSE Append(d, <<k, v>>)

RECURSIVE DictFromItems(_)
\* {k: v for k, v in items}
DictFromItems(items) ==
    IF items = <<>> THEN <<>>
    ELSE LET n == Len(items)
         IN DictSet(DictFromItems(SubSeq(items, 1, n - 1)), items[n][1], items[n][2])

(* ------------------------------ strings -------------------------------- *)
Letters ==
    {"a", "b", "c", "e", "g", "h", "o", "p", "q", "r", "s", "t", "u", "x", "y",
     "K", "M", "E"}

SchemeChars ==
    Letters \cup {"+", "-", "."}

\* "secret:"
SECRET_MARK == <<"s", "e", "c", "r", "e", "t", ":">>

\* upstream base URLs as they may be written in routes.json or the environment
UrlX == <<"h", ":", "/", "/", "x">>
UrlY == <<"h", ":", "/", "/", "y">>
UrlXSlash == UrlX \o <<"/">>
UrlXP == UrlX \o <<"/", "p">>
UrlXPSlash == UrlX \o <<"/", "p", "/">>
UrlYQ == UrlY \o <<"/", "?", "q">>
SecretK == SECRET_MARK \o <<"K">>
SecretKSlash == SECRET_MARK \o <<"K", "/">>
SecretM == SECRET_MARK \o <<"M">>
SecretE == SECRET_MARK \o <<"E">>
SecretNoName == SECRET_MARK

PathRoutes == <<"/", "r", "o", "u", "t", "e", "s">>

(* --------------------------- process state ----------------------------- *)
VARIABLES
    routes_file,     \* routes.json: None when the file is missing, else its members in file order
    environ,         \* os.environ restricted to the secret names: name -> value
    API_KEY,         \* os.getenv("API_KEY")
    ROUTES,          \* the route table built by load_routes()
    _SECRET_CACHE,   \* name -> resolved value
    req,             \* the requests in flight, one per slot
    getenv_calls,    \* per secret name, how often resolve_upstream_value called os.getenv
    cache_writes     \* per secret name, how often _SECRET_CACHE[name] was assigned

vars == <<routes_file, environ, API_KEY, ROUTES, _SECRET_CACHE, req, getenv_calls, cache_writes>>

(* ------------------------------ load_routes ---------------------------- *)
\* json.load followed by the normalising dict comprehension; a missing file gives {}
load_routes(file) ==
    IF ~file.some THEN <<>>
    ELSE LET data == DictFromItems(file.v)
         IN DictFromItems([j \in 1..Len(data) |-> <<rstrip(data[j][1]), rstrip(data[j][2])>>])

(* ------------------------- resolve_upstream_value ---------------------- *)
\* os.getenv(name)
Getenv(env, name) ==
    IF name \in DOMAIN env THEN Some(env[name]) ELSE None

\* value.startswith("secret:")
IsSecretRef(value) ==
    startswith(value, SECRET_MARK)

\* value.split("secret:", 1)[1] for a value that starts with the marker
SecretName(value) ==
    SliceFrom(value, Len(SECRET_MARK))

CacheLookupAlwaysMiss(cache, name) ==
    FALSE

\* name in _SECRET_CACHE
CacheLookup(cache, name) ==
    name \in DOMAIN cache

\* not val
SecretMissing(val) ==
    ~Truthy(val)

\* _SECRET_CACHE[name] = v
CacheStore(cache, name, v) ==
    [n \in DOMAIN cache \cup {name} |-> IF n = name THEN v ELSE cache[n]]

\* The result of one call: whether it raised RuntimeError, the value returned, the
\* cache afterwards, the name passed to os.getenv (if any) and whether it stored.
resolve_upstream_value(value, cache, env) ==
    LET pass(v) == [raised |-> FALSE, ret |-> v, cache |-> cache, getenv |-> None, wrote |-> FALSE]
        name == SecretName(value)
        val == Getenv(env, name)
    IN  IF ~IsSecretRef(value) THEN pass(value)
        ELSE IF name = <<>>
        THEN [raised |-> TRUE, ret |-> <<>>, cache |-> cache, getenv |-> None, wrote |-> FALSE]
        ELSE IF CacheLookup(cache, name) THEN pass(cache[name])
        ELSE IF SecretMissing(val)
        THEN [raised |-> TRUE, ret |-> <<>>, cache |-> cache, getenv |-> Some(name), wrote |-> FALSE]
        ELSE [raised |-> FALSE, ret |-> rstrip(val.v),
              cache |-> CacheStore(cache, name, rstrip(val.v)),
              getenv |-> Some(name), wrote |-> TRUE]

(* ------------------------------ find_upstream -------------------------- *)
MatchesNoBoundary(path, prefix) ==
    startswith(path, prefix)

\* path == prefix or path.startswith(prefix + "/")
Matches(path, prefix) ==
    path = prefix \/ startswith(path, prefix \o <<"/">>)

SortKeyUpstream(x) ==
    Len(x[2])

\* key=lambda x: len(x[0])
SortKey(x) ==
    Len(x[1])

\* one insertion of the stable descending sort
InsertDesc(sorted, x) ==
    LET pos == Cardinality({j \in 1..Len(sorted) : SortKey(sorted[j]) >= SortKey(x)})
    IN  SubSeq(sorted, 1, pos) \o <<x>> \o SubSeq(sorted, pos + 1, Len(sorted))

RECURSIVE SortDesc(_)
\* matches.sort(key=..., reverse=True): stable, equal keys keep their order
SortDesc(ms) ==
    IF ms = <<>> THEN <<>>
    ELSE InsertDesc(SortDesc(SubSeq(ms, 1, Len(ms) - 1)), ms[Len(ms)])

\* the list comprehension over ROUTES.keys(), in dict order
MatchList(path, routes) ==
    SelectSeq(routes, LAMBDA e : Matches(path, e[1]))

\* suffix = path[len(prefix):], "/" when that is empty
Suffix(path, prefix) ==
    IF SliceFrom(path, Len(prefix)) = <<>> THEN <<"/">> ELSE SliceFrom(path, Len(prefix))

FindFallThrough(path, routes, cache, env) ==
    LET ms == SortDesc(MatchList(path, routes))
        ok == {j \in 1..Len(ms) : ~resolve_upstream_value(ms[j][2], cache, env).raised}
        j0 == CHOOSE j \in ok : \A k \in ok : j <= k
        r == resolve_upstream_value(ms[j0][2], cache, env)
    IN  IF ok = {}
        THEN [kind |-> "none", prefix |-> <<>>, upstream |-> <<>>, suffix |-> <<>>,
              cache |-> cache, getenv |-> None, wrote |-> FALSE]
        ELSE [kind |-> "ok", prefix |-> ms[j0][1], upstream |-> r.ret,
              suffix |-> Suffix(path, ms[j0][1]),
              cache |-> r.cache, getenv |-> r.getenv, wrote |-> r.wrote]

\* kind "none" is the None return, "raise" the propagated RuntimeError, "ok" the tuple
find_upstream(path, routes, cache, env) ==
    LET ms == SortDesc(MatchList(path, routes))
        r == resolve_upstream_value(ms[1][2], cache, env)
    IN  IF ms = <<>>
        THEN [kind |-> "none", prefix |-> <<>>, upstream |-> <<>>, suffix |-> <<>>,
              cache |-> cache, getenv |-> None, wrote |-> FALSE]
        ELSE IF r.raised
        THEN [kind |-> "raise", prefix |-> <<>>, upstream |-> <<>>, suffix |-> <<>>,
              cache |-> r.cache, getenv |-> r.getenv, wrote |-> FALSE]
        ELSE [kind |-> "ok", prefix |-> ms[1][1], upstream |-> r.ret,
              suffix |-> Suffix(path, ms[1][1]),
              cache |-> r.cache, getenv |-> r.getenv, wrote |-> r.wrote]

(* ------------------------------ target URL ----------------------------- *)
\* urllib.parse: the scheme is split off when the text before the first ":" is a
\* letter followed by scheme characters
AfterScheme(url) ==
    LET i == FindAny(url, {":"})
    IN  IF i > 1 /\ url[1] \in Letters /\ (\A j \in 1..(i - 1) : url[j] \in SchemeChars)
        THEN SliceFrom(url, i) ELSE url

\* a "//" authority runs to the next "/", "?" or "#"
AfterNetloc(url) ==
    IF startswith(url, <<"/", "/">>)
    THEN LET rest == SliceFrom(url, 2)
             d == FindAny(rest, {"/", "?", "#"})
         IN  IF d = 0 THEN <<>> ELSE SliceFrom(rest, d - 1)
    ELSE url

\* the text before the first character of cs
Before(url, cs) ==
    IF FindAny(url, cs) = 0 THEN url ELSE SubSeq(url, 1, FindAny(url, cs) - 1)

\* urlparse(upstream).path
urlparse_path(url) ==
    Before(Before(AfterNetloc(AfterScheme(url)), {"#"}), {"?"})

BuildTargetUrlNoLstrip(upstream, suffix) ==
    IF suffix = <<"/">>
    THEN IF urlparse_path(upstream) # <<>> /\ urlparse_path(upstream) # <<"/">>
         THEN upstream ELSE upstream \o <<"/">>
    ELSE rstrip(upstream) \o <<"/">> \o suffix

\* lines 127-135 of proxy
BuildTargetUrl(upstream, suffix) ==
    IF suffix = <<"/">>
    THEN IF urlparse_path(upstream) # <<>> /\ urlparse_path(upstream) # <<"/">>
         THEN upstream ELSE upstream \o <<"/">>
    ELSE rstrip(upstream) \o <<"/">> \o lstrip(suffix)

(* -------------------------------- headers ------------------------------ *)
HOP_BY_HOP ==
    {"connection", "keep-alive", "proxy-authenticate", "proxy-authorization", "te",
     "trailers", "transfer-encoding", "upgrade"}

\* str.lower() on the header names that occur
Lower(n) ==
    CASE n = "Connection" -> "connection"
      [] n = "TE" -> "te"
      [] n = "Host" -> "host"
      [] n = "Accept" -> "accept"
      [] n = "X-Forwarded-For" -> "x-forwarded-for"
      [] n = "X-Api-Key" -> "x-api-key"
      [] n = "Transfer-Encoding" -> "transfer-encoding"
      [] n = "Set-Cookie" -> "set-cookie"
      [] n = "Upgrade" -> "upgrade"
      [] OTHER -> n

\* request.headers.items(): one pair per header line, in order, duplicates included;
\* the ASGI server delivers the names lower-cased
request_headers_items(wire) ==
    [j \in 1..Len(wire) |-> <<Lower(wire[j][1]), wire[j][2]>>]

\* request.headers.get(name): the first line with that name
request_headers_get(wire, name) ==
    LET hit == {j \in 1..Len(wire) : Lower(wire[j][1]) = name}
    IN  IF hit = {} THEN None ELSE Some(wire[CHOOSE j \in hit : \A k \in hit : j <= k][2])

RECURSIVE httpx_headers_items(_)
\* resp.headers.items(): names lower-cased, a repeated name joined with ", "
httpx_headers_items(wire) ==
    IF wire = <<>> THEN <<>>
    ELSE LET n == Len(wire)
             d == httpx_headers_items(SubSeq(wire, 1, n - 1))
             k == Lower(wire[n][1])
         IN  IF DictHas(d, k) THEN DictSet(d, k, DictGet(d, k) \o <<", ">> \o wire[n][2])
             ELSE DictSet(d, k, wire[n][2])

\* k.lower() not in HOP_BY_HOP and k.lower() != "host"
RequestHeaderKept(k) ==
    Lower(k) \notin HOP_BY_HOP /\ Lower(k) # "host"

\* k.lower() not in HOP_BY_HOP
ResponseHeaderKept(k) ==
    Lower(k) \notin HOP_BY_HOP

\* the dict comprehension of lines 141-145
FilterRequestHeaders(items) ==
    DictFromItems(SelectSeq(items, LAMBDA h : RequestHeaderKept(h[1])))

\* the dict comprehension of line 169
FilterResponseHeaders(items) ==
    DictFromItems(SelectSeq(items, LAMBDA h : ResponseHeaderKept(h[1])))

\* request.client.host if request.client else ""
ClientHost(client) ==
    IF client.some THEN client.v ELSE <<>>

\* lines 147-150
SetForwardedFor(req_headers, client_host) ==
    IF client_host # <<>>
    THEN LET existing == DictGetOpt(req_headers, "x-forwarded-for")
         IN  DictSet(req_headers, "x-forwarded-for",
                     IF Truthy(existing) THEN existing.v \o <<", ">> \o client_host
                     ELSE client_host)
    ELSE req_headers

(* ------------------------------- auth gate ----------------------------- *)
GateRejectsOnlyMissing(api_key, wire, path) ==
    Truthy(api_key) /\ ~Truthy(request_headers_get(wire, "x-api-key"))

GateRejectsExemptRoutes(api_key, wire, path) ==
    /\ path # PathRoutes
    /\ Truthy(api_key)
    /\ LET key == request_headers_get(wire, "x-api-key")
       IN  ~Truthy(key) \/ key.v # api_key.v

\* check_api_key: whether the middleware answers 401 instead of calling call_next
GateRejects(api_key, wire, path) ==
    /\ Truthy(api_key)
    /\ LET key == request_headers_get(wire, "x-api-key")
       IN  ~Truthy(key) \/ key.v # api_key.v

(* ------------------------------- requests ------------------------------ *)
NoFound ==
    [kind |-> "none", prefix |-> <<>>, upstream |-> <<>>, suffix |-> <<>>]

IdleReq ==
    [pc |-> "idle", method |-> "GET", path |-> <<>>, headers |-> <<>>, client |-> None,
     kind |-> "none", status |-> 0, looked_up |-> FALSE, fetched |-> None,
     wrote |-> FALSE, called |-> FALSE, found |-> NoFound, target_url |-> <<>>,
     req_headers |-> <<>>, up_headers |-> <<>>, resp_headers |-> <<>>, body |-> <<>>]

\* the secret names the route table refers to
RefNames(routes) ==
    {SecretName(routes[j][2]) : j \in {k \in 1..Len(routes) : IsSecretRef(routes[k][2])}}

InitWith(Files, Envs, Keys, Slots) ==
    /\ routes_file \in Files
    /\ environ \in Envs
    /\ API_KEY \in Keys
    /\ ROUTES = load_routes(routes_file)
    /\ _SECRET_CACHE = <<>>
    /\ req = [i \in Slots |-> IdleReq]
    /\ getenv_calls = [n \in RefNames(load_routes(routes_file)) |-> 0]
    /\ cache_writes = [n \in RefNames(load_routes(routes_file)) |-> 0]

\* a request arrives: the server hands method, path, headers and peer to the app
Receive(i, Methods, Paths, HeaderLists, KeyOpts, Clients) ==
    /\ req[i].pc = "idle"
    /\ \E m \in Methods, p \in Paths, hs \in HeaderLists, k \in KeyOpts, c \in Clients :
          req' = [req EXCEPT ![i] =
                    [IdleReq EXCEPT !.pc = "gate", !.method = m, !.path = p,
                        !.headers = IF k.some THEN <<<<"X-Api-Key", k.v>>>> \o hs ELSE hs,
                        !.client = c]]
    /\ UNCHANGED <<routes_file, environ, API_KEY, ROUTES, _SECRET_CACHE, getenv_calls, cache_writes>>

\* the http middleware, lines 102-108
check_api_key(i) ==
    /\ req[i].pc = "gate"
    /\ req' = [req EXCEPT ![i] =
                 IF GateRejects(API_KEY, req[i].headers, req[i].path)
                 THEN [@ EXCEPT !.pc = "done", !.kind = "gate", !.status = 401]
                 ELSE [@ EXCEPT !.pc = "handler"]]
    /\ UNCHANGED <<routes_file, environ, API_KEY, ROUTES, _SECRET_CACHE, getenv_calls, cache_writes>>

\* the router gives GET /routes to routes() and everything else to proxy()
IsRoutesRequest(r) ==
    r.method = "GET" /\ r.path = PathRoutes

routesResolved ==
    [j \in 1..Len(ROUTES) |->
        IF IsSecretRef(ROUTES[j][2]) /\ SecretName(ROUTES[j][2]) \in DOMAIN _SECRET_CACHE
        THEN <<ROUTES[j][1], _SECRET_CACHE[SecretName(ROUTES[j][2])]>>
        ELSE ROUTES[j]]

\* what routes() returns, lines 97-99
routesBody ==
    ROUTES

routes(i) ==
    /\ req[i].pc = "handler"
    /\ IsRoutesRequest(req[i])
    /\ req' = [req EXCEPT ![i] =
                 [@ EXCEPT !.pc = "done", !.kind = "routes", !.status = 200, !.body = routesBody]]
    /\ UNCHANGED <<routes_file, environ, API_KEY, ROUTES, _SECRET_CACHE, getenv_calls, cache_writes>>

\* proxy() from its entry to the outbound call, lines 113-164; nothing in it awaits
\* before find_upstream has returned, so lookup, fetch and store are one step
proxy(i) ==
    /\ req[i].pc = "handler"
    /\ ~IsRoutesRequest(req[i])
    /\ LET f == find_upstream(req[i].path, ROUTES, _SECRET_CACHE, environ)
           url == BuildTargetUrl(f.upstream, f.suffix)
           hs == SetForwardedFor(FilterRequestHeaders(request_headers_items(req[i].headers)),
                                 ClientHost(req[i].client))
       IN  /\ f.getenv.some => getenv_calls[f.getenv.v] < MaxFetch
           /\ _SECRET_CACHE' = f.cache
           /\ getenv_calls' = IF f.getenv.some
                              THEN [getenv_calls EXCEPT ![f.getenv.v] = @ + 1]
                              ELSE getenv_calls
           /\ cache_writes' = IF f.wrote
                              THEN [cache_writes EXCEPT ![f.getenv.v] = @ + 1]
                              ELSE cache_writes
           /\ req' = [req EXCEPT ![i] =
                        CASE f.kind = "none" ->
                               [@ EXCEPT !.pc = "done", !.kind = "not_found", !.status = 404,
                                         !.looked_up = TRUE]
                          [] f.kind = "raise" ->
                               [@ EXCEPT !.pc = "done", !.kind = "server_error", !.status = 500,
                                         !.looked_up = TRUE, !.fetched = f.getenv]
                          [] OTHER ->
                               [@ EXCEPT !.pc = "upstream", !.looked_up = TRUE,
                                         !.fetched = f.getenv, !.wrote = f.wrote,
                                         !.found = [kind |-> "ok", prefix |-> f.prefix,
                                                    upstream |-> f.upstream, suffix |-> f.suffix],
                                         !.target_url = url, !.req_headers = hs,
                                         !.called = TRUE]]
    /\ UNCHANGED <<routes_file, environ, API_KEY, ROUTES>>

\* httpx.RequestError (refused, DNS, timeout), lines 165-166
upstream_error(i) ==
    /\ req[i].pc = "upstream"
    /\ req' = [req EXCEPT ![i] = [@ EXCEPT !.pc = "done", !.kind = "bad_gateway", !.status = 502]]
    /\ UNCHANGED <<routes_file, environ, API_KEY, ROUTES, _SECRET_CACHE, getenv_calls, cache_writes>>

\* the upstream answers and the response is relayed, lines 169-171
upstream_response(i, Statuses, HeaderLists) ==
    /\ req[i].pc = "upstream"
    /\ \E st \in Statuses, hs \in HeaderLists :
          req' = [req EXCEPT ![i] =
                    [@ EXCEPT !.pc = "done", !.kind = "relay", !.status = st, !.up_headers = hs,
                              !.resp_headers = FilterResponseHeaders(httpx_headers_items(hs))]]
    /\ UNCHANGED <<routes_file, environ, API_KEY, ROUTES, _SECRET_CACHE, getenv_calls, cache_writes>>

\* the response has been sent; the slot is free for the next request
Complete(i) ==
    /\ req[i].pc = "done"
    /\ req' = [req EXCEPT ![i] = IdleReq]
    /\ UNCHANGED <<routes_file, environ, API_KEY, ROUTES, _SECRET_CACHE, getenv_calls, cache_writes>>

(* ------------------------- configurations and inputs ------------------- *)
NameK == <<"K">>
NameM == <<"M">>
NameE == <<"E">>

\* environments: K set (with a trailing slash), M unset, E set to ""
EnvKSet == (NameK :> UrlXPSlash) @@ (NameE :> <<>>)
EnvKBare == (NameK :> UrlY) @@ (NameE :> <<>>)
EnvNone == (NameE :> <<>>)

KeyGood == <<"k1">>
KeyBad == <<"k2">>

P_a == <<"/", "a">>
P_aSlash == <<"/", "a", "/">>
P_ab == <<"/", "a", "b">>
P_a_b == <<"/", "a", "/", "b">>
P_a_bSlash == <<"/", "a", "/", "b", "/">>
P_b == <<"/", "b">>
P_root == <<"/">>

\* routes.json as written: members in file order, trailing slashes as typed
FileNested == << <<P_a, UrlX>>, <<P_a_b, UrlXP>> >>
FileNestedRev == << <<P_a_bSlash, UrlY>>, <<P_aSlash, UrlXPSlash>> >>
FileSiblings == << <<P_a, UrlXSlash>>, <<P_ab, UrlY>>, <<P_root, UrlXP>> >>
FileSecrets == << <<P_a, SecretK>>, <<P_a_b, SecretM>>, <<P_b, UrlXSlash>> >>
FileSecrets2 == << <<P_a, UrlX>>, <<P_a_b, SecretE>>, <<P_b, SecretNoName>>, <<P_ab, SecretKSlash>> >>
FileDupes == << <<P_a, UrlX>>, <<P_aSlash, UrlY>>, <<P_a, UrlXP>>, <<P_b, P_root>> >>
FileQuery == << <<P_b, UrlYQ>>, <<P_a, UrlY>>, <<P_a_b, UrlX>> >>

RouteFiles ==
    {None, Some(<<>>), Some(FileNested), Some(FileNestedRev), Some(FileSiblings),
     Some(FileSecrets), Some(FileSecrets2), Some(FileDupes), Some(FileQuery)}

PathChars == {"/", "a", "b"}

\* every path "/" + full_path over PathChars up to MaxPathLen, and /routes
AllPaths ==
    {p \in UNION {[1..n -> PathChars] : n \in 1..MaxPathLen} : p[1] = "/"} \cup {PathRoutes}

GwPaths == {PathRoutes, P_a, P_a_b}

ReqHeaderNames == {"Connection", "host", "X-Forwarded-For", "accept"}
ReqHeaderValues == {<<>>, <<"1.1.1.1">>, <<"3.3.3.3">>}
RespHeaderNames == {"Transfer-Encoding", "set-cookie"}
RespHeaderValues == {<<"a">>, <<"b">>}

\* header lists of at most MaxHdrs lines
ListsOver(S) ==
    UNION {[1..n -> S] : n \in 0..MaxHdrs}

ClientAddr == <<"2.2.2.2">>

(* ---------------------------- specifications --------------------------- *)
\* the gateway serving NumReq requests concurrently
Slots == 1..NumReq

Init ==
    InitWith({Some(FileSecrets)}, {EnvKSet}, {None, Some(KeyGood)}, Slots)

Next ==
    \E i \in Slots :
        \/ Receive(i, {"GET"}, GwPaths, {<<>>}, {None, Some(KeyGood), Some(KeyBad)}, {Some(ClientAddr)})
        \/ check_api_key(i)
        \/ routes(i)
        \/ proxy(i)
        \/ upstream_error(i)
        \/ upstream_response(i, {200, 401}, {<<>>})
        \/ Complete(i)

Spec == Init /\ [][Next]_vars

\* one request at a time over many route tables and every short path
InitRoute ==
    InitWith(RouteFiles, {EnvKSet, EnvKBare, EnvNone}, {None}, {1})

NextRoute ==
    \/ Receive(1, {"GET", "POST"}, AllPaths, {<<>>}, {None}, {Some(ClientAddr)})
    \/ check_api_key(1)
    \/ routes(1)
    \/ proxy(1)
    \/ upstream_error(1)
    \/ upstream_response(1, {200}, {<<>>})
    \/ Complete(1)

SpecRoute == InitRoute /\ [][NextRoute]_vars

\* one request at a time over many header lists
InitHdr ==
    InitWith({Some(FileNested)}, {EnvNone}, {None}, {1})

NextHdr ==
    \/ Receive(1, {"GET"}, {P_a, PathRoutes}, ListsOver(ReqHeaderNames \X ReqHeaderValues),
               {None}, {None, Some(<<>>), Some(ClientAddr)})
    \/ check_api_key(1)
    \/ routes(1)
    \/ proxy(1)
    \/ upstream_error(1)
    \/ upstream_response(1, {200}, ListsOver(RespHeaderNames \X RespHeaderValues))
    \/ Complete(1)

SpecHdr == InitHdr /\ [][NextHdr]_vars

(* ------------------------- vocabulary of the claims --------------------- *)
\* "prefix p matches the path", stated on the characters
PrefixMatches(path, p) ==
    \/ path = p
    \/ /\ Len(path) > Len(p)
       /\ \A j \in 1..Len(p) : path[j] = p[j]
       /\ path[Len(p) + 1] = "/"

MatchingEntries(path) ==
    {j \in 1..Len(ROUTES) : PrefixMatches(path, ROUTES[j][1])}

\* the entries whose prefix is a longest matching one
LongestEntries(path) ==
    {j \in MatchingEntries(path) :
        \A k \in MatchingEntries(path) : Len(ROUTES[k][1]) <= Len(ROUTES[j][1])}

\* the upstream a table value stands for once resolved
ResolvedValue(v) ==
    IF IsSecretRef(v) THEN Getenv(_SECRET_CACHE, SecretName(v)) ELSE Some(v)

\* a reference secret:NAME whose NAME is empty, unset or set to ""
Unresolvable(v) ==
    /\ IsSecretRef(v)
    /\ \/ SecretName(v) = <<>>
       \/ SecretName(v) \notin DOMAIN environ
       \/ environ[SecretName(v)] = <<>>

\* every order the same table could be iterated in
Reorderings(table) ==
    {[j \in 1..Len(table) |-> table[f[j]]] : f \in Permutations(1..Len(table))}

EndsWithSlash(s) ==
    s # <<>> /\ s[Len(s)] = "/"

(* -------------------------------- claims ------------------------------- *)
\* C1: whenever find_upstream returns, the returned prefix is a configured prefix that
\* matches the path and no matching prefix is longer, and the returned upstream is that
\* prefix's upstream (resolved); it reports no match only when no prefix matches.
C1_LongestPrefixWins ==
    \A i \in DOMAIN req :
        /\ req[i].found.kind = "ok" =>
              /\ \E j \in LongestEntries(req[i].path) :
                    /\ ROUTES[j][1] = req[i].found.prefix
                    /\ ResolvedValue(ROUTES[j][2]) = Some(req[i].found.upstream)
              /\ req[i].found.suffix = IF req[i].path = req[i].found.prefix THEN <<"/">>
                                        ELSE SliceFrom(req[i].path, Len(req[i].found.prefix))
        /\ req[i].kind = "not_found" => MatchingEntries(req[i].path) = {}

\* a shorter and a longer prefix both match, with different upstreams, and the longer won
C1_Witness ==
    \E i \in DOMAIN req :
        /\ req[i].found.kind = "ok"
        /\ \E j \in MatchingEntries(req[i].path) :
              /\ Len(ROUTES[j][1]) < Len(req[i].found.prefix)
              /\ ResolvedValue(ROUTES[j][2]) # Some(req[i].found.upstream)

\* C2: the target URL has exactly one "/" where upstream and suffix are joined: for a
\* non-trivial suffix the URL is the upstream, one "/", then the suffix without its
\* leading slashes; for suffix "/" it is the upstream itself when the upstream's path is
\* non-root and the upstream plus one "/" otherwise; the upstream never ends in "/",
\* however it was written in routes.json or the environment.
C2_SingleSlashAtJoin ==
    \A i \in DOMAIN req :
        req[i].found.kind = "ok" =>
            LET u == req[i].found.upstream
                s == req[i].found.suffix
                t == req[i].target_url
                n == Len(req[i].found.upstream)
            IN  /\ s # <<>> /\ s[1] = "/"
                /\ ~EndsWithSlash(u)
                /\ IF s = <<"/">>
                   THEN t = IF urlparse_path(u) \in {<<>>, <<"/">>} THEN u \o <<"/">> ELSE u
                   ELSE /\ Len(t) > n
                        /\ SubSeq(t, 1, n) = u
                        /\ t[n + 1] = "/"
                        /\ Len(t) > n + 1 => t[n + 2] # "/"
                        /\ \E k \in 1..Len(s) :
                              /\ \A j \in 1..k : s[j] = "/"
                              /\ SliceFrom(t, n + 1) = SliceFrom(s, k)

\* an upstream written with a trailing slash is joined to a suffix that starts with "//"
C2_Witness ==
    \E i \in DOMAIN req :
        /\ req[i].found.kind = "ok"
        /\ Len(req[i].found.suffix) >= 2
        /\ req[i].found.suffix[2] = "/"
        /\ \E j \in 1..Len(routes_file.v) :
              /\ rstrip(routes_file.v[j][1]) = req[i].found.prefix
              /\ EndsWithSlash(routes_file.v[j][2])
              /\ rstrip(routes_file.v[j][2]) = req[i].found.upstream

\* C10: no two distinct configured prefixes of equal length match the same path, and
\* the (prefix, upstream, suffix) a request got is what find_upstream returns for
\* every iteration order of the same table.
C10_OrderIndependent ==
    \A i \in DOMAIN req :
        req[i].looked_up =>
            /\ \A j, k \in MatchingEntries(req[i].path) :
                  j # k => Len(ROUTES[j][1]) # Len(ROUTES[k][1])
            /\ req[i].found.kind = "ok" =>
                  \A t \in Reorderings(ROUTES) :
                      LET f == find_upstream(req[i].path, t, _SECRET_CACHE, environ)
                      IN  [kind |-> f.kind, prefix |-> f.prefix, upstream |-> f.upstream,
                           suffix |-> f.suffix] = req[i].found

\* two prefixes with upstreams of equal length match, listed shorter prefix first
C10_Witness ==
    \E i \in DOMAIN req :
        /\ req[i].found.kind = "ok"
        /\ \E j, k \in MatchingEntries(req[i].path) :
              j < k /\ Len(ROUTES[j][1]) < Len(ROUTES[k][1]) /\ Len(ROUTES[j][2]) = Len(ROUTES[k][2])

\* the values of the inbound header lines whose lower-cased name is n
InboundValues(r, n) ==
    {r.headers[j][2] : j \in {k \in 1..Len(r.headers) : Lower(r.headers[k][1]) = n}}

\* value v is one of the comma-joined parts of the header value w
PartOf(v, w) ==
    v = w \/ \E j \in 1..Len(w) : v = <<w[j]>>

\* C3: the outbound header set holds no hop-by-hop header and no Host, the relayed
\* header set holds no hop-by-hop header, and every other header line of the request
\* or of the upstream response is kept with its value (X-Forwarded-For, whose value
\* proxy rewrites, is kept by name).
C3_HeadersFiltered ==
    \A i \in DOMAIN req :
        /\ req[i].called =>
              /\ \A k \in DictKeys(req[i].req_headers) :
                    Lower(k) \notin HOP_BY_HOP /\ Lower(k) # "host"
              /\ \A j \in 1..Len(req[i].headers) :
                    LET k == Lower(req[i].headers[j][1])
                    IN  (k \notin HOP_BY_HOP /\ k # "host") =>
                            /\ DictHas(req[i].req_headers, k)
                            /\ k # "x-forwarded-for" =>
                                  DictGet(req[i].req_headers, k) = req[i].headers[j][2]
        /\ req[i].kind = "relay" =>
              /\ \A k \in DictKeys(req[i].resp_headers) : Lower(k) \notin HOP_BY_HOP
              /\ \A j \in 1..Len(req[i].up_headers) :
                    LET k == Lower(req[i].up_headers[j][1])
                    IN  k \notin HOP_BY_HOP =>
                            /\ DictHas(req[i].resp_headers, k)
                            /\ PartOf(req[i].up_headers[j][2], DictGet(req[i].resp_headers, k))

\* the part of C3 about the excluded names alone
C3_ExcludedNeverPassed ==
    \A i \in DOMAIN req :
        /\ \A k \in DictKeys(req[i].req_headers) :
              Lower(k) \notin HOP_BY_HOP /\ Lower(k) # "host"
        /\ \A k \in DictKeys(req[i].resp_headers) : Lower(k) \notin HOP_BY_HOP
        /\ req[i].called =>
              \A j \in 1..Len(req[i].headers) :
                  (Lower(req[i].headers[j][1]) \notin HOP_BY_HOP \cup {"host"}) =>
                      DictHas(req[i].req_headers, Lower(req[i].headers[j][1]))

\* C4: with a client address c, every X-Forwarded-For value v the request carries is
\* forwarded as v + ", " + c, and a request carrying none (no line, or only empty ones)
\* gets c; without a client address the outbound X-Forwarded-For is what the request
\* carried, absent staying absent.
C4_ForwardedForAccumulates ==
    \A i \in DOMAIN req :
        req[i].called =>
            LET vs == InboundValues(req[i], "x-forwarded-for")
                c == ClientHost(req[i].client)
                out == DictGetOpt(req[i].req_headers, "x-forwarded-for")
            IN  IF c # <<>>
                THEN /\ \A v \in vs \ {<<>>} : out = Some(v \o <<", ">> \o c)
                     /\ vs \subseteq {<<>>} => out = Some(c)
                ELSE /\ vs = {} => ~out.some
                     /\ \A v \in vs : out = Some(v)

\* C4 for the requests that carry at most one X-Forwarded-For line
C4_SingleLineAccumulates ==
    \A i \in DOMAIN req :
        (req[i].called /\ Cardinality({j \in 1..Len(req[i].headers) :
                                          Lower(req[i].headers[j][1]) = "x-forwarded-for"}) <= 1) =>
            LET vs == InboundValues(req[i], "x-forwarded-for")
                c == ClientHost(req[i].client)
                out == DictGetOpt(req[i].req_headers, "x-forwarded-for")
            IN  IF c # <<>>
                THEN /\ \A v \in vs \ {<<>>} : out = Some(v \o <<", ">> \o c)
                     /\ vs \subseteq {<<>>} => out = Some(c)
                ELSE /\ vs = {} => ~out.some
                     /\ \A v \in vs : out = Some(v)

\* C5: a request whose longest matching prefix maps to secret:NAME with NAME empty,
\* unset or set to "" ends in the 500 server-error response: no outbound call, no
\* cache entry for NAME, and no (prefix, upstream) of a shorter match.
C5_MissingSecretAborts ==
    \A i \in DOMAIN req :
        \A j \in LongestEntries(req[i].path) :
            (req[i].looked_up /\ Unresolvable(ROUTES[j][2])) =>
                /\ req[i].pc = "done"
                /\ req[i].kind = "server_error"
                /\ req[i].status = 500
                /\ ~req[i].called
                /\ req[i].found.kind = "none"
                /\ SecretName(ROUTES[j][2]) \notin DOMAIN _SECRET_CACHE

\* the failing reference has a shorter matching prefix whose upstream would resolve
C5_Witness ==
    \E i \in DOMAIN req :
        /\ req[i].kind = "server_error"
        /\ \E j \in LongestEntries(req[i].path), k \in MatchingEntries(req[i].path) :
              /\ Unresolvable(ROUTES[j][2])
              /\ Len(ROUTES[k][1]) < Len(ROUTES[j][1])
              /\ ~Unresolvable(ROUTES[k][2])

\* a key is configured and the request's x-api-key is absent, empty or different
BadKey(r) ==
    /\ API_KEY.some /\ API_KEY.v # <<>>
    /\ \/ InboundValues(r, "x-api-key") \subseteq {<<>>}
       \/ \E v \in InboundValues(r, "x-api-key") : v # API_KEY.v

\* C6: with an API key configured, a proxied request with a bad key is answered 401 by
\* the gate and never reaches the core (no route lookup, no secret fetch or cache
\* fill, no outbound call); with no API key configured the gate rejects nothing.
C6_GateBeforeCore ==
    \A i \in DOMAIN req :
        /\ (req[i].pc # "idle" /\ ~IsRoutesRequest(req[i]) /\ BadKey(req[i])) =>
              /\ req[i].pc \in {"gate", "done"}
              /\ req[i].pc = "done" => (req[i].kind = "gate" /\ req[i].status = 401)
              /\ ~req[i].looked_up
              /\ ~req[i].fetched.some
              /\ ~req[i].wrote
              /\ ~req[i].called
        /\ ~Truthy(API_KEY) => req[i].kind # "gate"
        /\ (req[i].pc # "idle" /\ ~BadKey(req[i])) => req[i].kind # "gate"

\* a proxied request with a wrong key was answered 401 while a secret was resolvable
C6_Witness ==
    \E i \in DOMAIN req :
        /\ req[i].pc = "done" /\ req[i].kind = "gate" /\ req[i].status = 401
        /\ req[i].path = P_a
        /\ InboundValues(req[i], "x-api-key") = {KeyBad}
        /\ NameK \in DOMAIN environ

\* C7 as claimed: with an API key configured, GET /routes with a bad key is still
\* answered with the routing table.
C7_RoutesUngated ==
    \A i \in DOMAIN req :
        (req[i].pc = "done" /\ IsRoutesRequest(req[i]) /\ BadKey(req[i])) =>
            /\ req[i].kind = "routes"
            /\ req[i].body = ROUTES

\* C7 amended: the gate applies to GET /routes as to every other path: with a bad key
\* it is answered 401 without the table, otherwise 200 with the table.
C7_RoutesGated ==
    \A i \in DOMAIN req :
        (req[i].pc = "done" /\ IsRoutesRequest(req[i])) =>
            IF BadKey(req[i])
            THEN req[i].kind = "gate" /\ req[i].status = 401 /\ req[i].body = <<>>
            ELSE req[i].kind = "routes" /\ req[i].status = 200 /\ req[i].body = ROUTES

C7_Witness ==
    \E i \in DOMAIN req :
        /\ req[i].pc = "done" /\ IsRoutesRequest(req[i]) /\ BadKey(req[i])
        /\ req[i].status = 401

\* C8: ROUTES stays the table load_routes built at startup, and every /routes answer is
\* exactly that table, each secret reference still in its secret:NAME form.
C8_RoutesImmutable ==
    /\ ROUTES = load_routes(routes_file)
    /\ \A i \in DOMAIN req :
          req[i].kind = "routes" =>
              /\ req[i].body = load_routes(routes_file)
              /\ \A j \in 1..Len(routes_file.v) :
                    IsSecretRef(routes_file.v[j][2]) =>
                        \E k \in 1..Len(req[i].body) :
                            /\ req[i].body[k][1] = rstrip(routes_file.v[j][1])
                            /\ IsSecretRef(req[i].body[k][2])

\* /routes is answered after a secret was resolved into the cache
C8_Witness ==
    \E i \in DOMAIN req :
        /\ req[i].kind = "routes"
        /\ DOMAIN _SECRET_CACHE # {}
        /\ \E j \in 1..Len(req[i].body) : IsSecretRef(req[i].body[j][2])

\* C9 as claimed: at most one os.getenv call per name ever, one cache write per name,
\* and a cached value is the normalized environment value.
C9_AtMostOneFetch ==
    \A n \in DOMAIN getenv_calls :
        /\ getenv_calls[n] <= 1
        /\ cache_writes[n] <= 1
        /\ n \in DOMAIN _SECRET_CACHE => _SECRET_CACHE[n] = rstrip(environ[n])

C9_State(cache, calls, writes) ==
    \A n \in DOMAIN calls :
        IF n \in DOMAIN cache
        THEN /\ calls[n] = 1
             /\ writes[n] = 1
             /\ n \in DOMAIN environ /\ environ[n] # <<>>
             /\ cache[n] = rstrip(environ[n])
             /\ ~EndsWithSlash(cache[n])
        ELSE /\ writes[n] = 0
             /\ calls[n] > 0 => (n \notin DOMAIN environ \/ environ[n] = <<>>)

\* C9 amended: a name whose variable is set and non-empty is fetched exactly once and
\* stored exactly once, as the value with its trailing "/" stripped, and the entry is
\* never changed or removed; a name whose variable is unset or empty is never stored
\* (and may be fetched again by every request that resolves it).
C9_FillOnce ==
    [][/\ C9_State(_SECRET_CACHE', getenv_calls', cache_writes')
       /\ \A n \in DOMAIN _SECRET_CACHE :
             n \in DOMAIN _SECRET_CACHE' /\ _SECRET_CACHE'[n] = _SECRET_CACHE[n]]_vars

\* two requests in flight resolved the same name: one filled the cache, the other hit it
C9_Witness ==
    \E i, j \in DOMAIN req :
        /\ i # j
        /\ req[i].pc = "upstream" /\ req[j].pc = "upstream"
        /\ req[i].found.prefix = req[j].found.prefix
        /\ req[i].wrote /\ req[i].fetched = Some(NameK)
        /\ ~req[j].fetched.some
        /\ getenv_calls[NameK] = 1

====
